---------------------------- MODULE Spec2Model ----------------------------
(***************************************************************************)
(* A model of the nanobind value-marshalling core: the numeric, pair and   *)
(* generic type casters (cast.h), and the object-protocol shim, capsule    *)
(* helper and sequence fetch of common.cpp.                                *)
(*                                                                         *)
(* The foreign runtime (CPython) is modelled by what its C API documents:  *)
(* arbitrary-precision integers, double-precision floats, reference        *)
(* counts, and one global pending-error indicator.  Machine widths are     *)
(* scaled down (a "long" of LongBits bits, and so on) so that every        *)
(* overflow case is enumerated.                                            *)
(***************************************************************************)
EXTENDS Integers, Sequences, FiniteSets, TLC

VARIABLES
    err,       \* the foreign runtime's pending-error indicator (PyErr_Occurred)
    rc,        \* the reference count of each foreign object of the heap
    num,       \* numeric caster: the handle in hand and the last load's outcome
    pl,        \* pair caster: the last load and its outcome
    pc,        \* pair caster / accessor: the last cast and its outcome
    reg,       \* generic caster: the last call handed to the external registry
    caps,      \* the opaque carriers created by capsule_new
    calls,     \* the destructor invocations made so far, in order
    aborted,   \* the process was terminated by fail()
    slot,      \* the in/out slot of getattr_maybe / getitem_maybe
    lk         \* the last getattr_maybe / getitem_maybe call and its outcome

vars == <<err, rc, num, pl, pc, reg, caps, calls, aborted, slot, lk>>

(***************************************************************************)
(* Bounds of the model: scaled-down machine widths.                        *)
(***************************************************************************)
NarrowBits == 2       \* width of an integer type narrower than long
LongBits == 3         \* width of long / unsigned long
LongLongBits == 4     \* width of long long / unsigned long long
FloatMant == 2        \* significand bits of float
DoubleMant == 3       \* significand bits of double
LongDoubleMant == 4   \* significand bits of long double

Pow2(n) == 2^n

\* the element of a one-element set: Only({e(x) : x \in {d}}) is e with x
\* standing for the value of d, computed once
Only(S) == CHOOSE x \in S : TRUE

Abs(x) == IF x < 0 THEN -x ELSE x

(***************************************************************************)
(* Native arithmetic types T of type_caster<T, is_arithmetic_v<T>>.        *)
(***************************************************************************)
IntWidths == {NarrowBits, LongBits, LongLongBits}

SignedTypes == [cls : {"signed"}, bits : IntWidths]

UnsignedTypes == [cls : {"unsigned"}, bits : IntWidths]

IntTypes == SignedTypes \cup UnsignedTypes

FloatTypes == [cls : {"float"}, bits : {FloatMant, DoubleMant, LongDoubleMant}]

ArithTypes == IntTypes \cup FloatTypes

DoubleT == [cls |-> "float", bits |-> DoubleMant]

NoType == [cls |-> "none", bits |-> 0]

is_floating_point(T) == T.cls = "float"

is_unsigned(T) == T.cls = "unsigned"

is_signed(T) == T.cls \in {"signed", "float"}

\* sizeof(T) for the integer types (in bits)
SizeOf(T) == T.bits

MinOf(T) == IF is_unsigned(T) THEN 0 ELSE -Pow2(T.bits - 1)

MaxOf(T) == IF is_unsigned(T) THEN Pow2(T.bits) - 1 ELSE Pow2(T.bits - 1) - 1

\* largest magnitude of the native floating-point values enumerated
FMax == Pow2(LongDoubleMant) - 1

\* largest magnitude a foreign integer may have and still convert to a double
DblMax == Pow2(LongDoubleMant)

MaxExp == LongLongBits + LongDoubleMant + 2

\* round a >= 0 to m significand bits, to nearest, ties to even
RoundPos(a, m) ==
    LET e  == CHOOSE k \in 0..MaxExp :
                  a < Pow2(m + k) /\ (k = 0 \/ a >= Pow2(m + k - 1))
        q  == Pow2(e)
        lo == (a \div q) * q
        hi == lo + q
    IN  IF a = lo THEN a
        ELSE IF a - lo < hi - a THEN lo
        ELSE IF a - lo > hi - a THEN hi
        ELSE IF (lo \div q) % 2 = 0 THEN lo ELSE hi

\* conversion of x to the floating-point format with m significand bits
RoundTo(x, m) == IF x < 0 THEN -RoundPos(-x, m) ELSE RoundPos(x, m)

Representable(x, m) == RoundTo(x, m) = x

\* the values representable in T
ValuesOf(T) ==
    IF is_floating_point(T)
    THEN {x \in -FMax..FMax : Representable(x, T.bits)}
    ELSE MinOf(T)..MaxOf(T)

\* C++ conversion of the number x to the arithmetic type T: (T) x
static_cast(T, x) ==
    IF is_floating_point(T) THEN RoundTo(x, T.bits)
    ELSE IF is_unsigned(T) THEN x % Pow2(T.bits)
    ELSE LET m == x % Pow2(T.bits)
         IN  IF m >= Pow2(T.bits - 1) THEN m - Pow2(T.bits) ELSE m

(***************************************************************************)
(* using T0 / T1 / Tp: the intermediate type of the conversion.            *)
(***************************************************************************)
T0bits(T) == IF SizeOf(T) <= LongBits THEN LongBits ELSE LongLongBits

T1(T) == [cls |-> IF is_signed(T) THEN "signed" ELSE "unsigned", bits |-> T0bits(T)]

Tp(T) == IF is_floating_point(T) THEN DoubleT ELSE T1(T)

(***************************************************************************)
(* Foreign objects as the numeric caster sees them.                        *)
(***************************************************************************)
NULL == [kind |-> "null", val |-> 0]

\* a foreign integer beyond the range of every native type and of double
Huge == Pow2(LongLongBits + 1)

MinPy == -Pow2(LongLongBits - 1) - 1

MaxPy == Pow2(LongLongBits)

PyInts == [kind : {"int"}, val : (MinPy..MaxPy) \cup {Huge, -Huge}]

PyFloats == [kind : {"float"}, val : {x \in -FMax..FMax : Representable(x, DoubleMant)}]

\* an object that is neither a number nor a sequence
PyNone == [kind |-> "none", val |-> 0]

PyObjs == PyInts \cup PyFloats \cup {PyNone}

PyLong_Check(o) == o.kind = "int"

PyFloat_Check(o) == o.kind = "float"

\* signed conversion into `bits` bits: -1 with an error set when it fails.
\* Before Python 3.10 a non-integer with __int__ (a float) was truncated.
PyLong_AsSigned(o, bits, legacy) ==
    LET S == [cls |-> "signed", bits |-> bits]
    IN  IF o.kind = "int" \/ (o.kind = "float" /\ legacy)
        THEN IF o.val >= MinOf(S) /\ o.val <= MaxOf(S)
             THEN [val |-> o.val, err |-> FALSE]
             ELSE [val |-> -1, err |-> TRUE]
        ELSE [val |-> -1, err |-> TRUE]

\* unsigned conversion: (unsigned) -1 with an error set when it fails
PyLong_AsUnsigned(o, bits) ==
    LET U == [cls |-> "unsigned", bits |-> bits]
    IN  IF o.kind = "int" /\ o.val >= 0 /\ o.val <= MaxOf(U)
        THEN [val |-> o.val, err |-> FALSE]
        ELSE [val |-> MaxOf(U), err |-> TRUE]

PyLong_AsLong(o, legacy) == PyLong_AsSigned(o, LongBits, legacy)

PyLong_AsLongLong(o, legacy) == PyLong_AsSigned(o, LongLongBits, legacy)

PyLong_AsUnsignedLong(o) == PyLong_AsUnsigned(o, LongBits)

PyLong_AsUnsignedLongLong(o) == PyLong_AsUnsigned(o, LongLongBits)

PyFloat_AsDouble(o) ==
    IF o.kind = "float" THEN [val |-> o.val, err |-> FALSE]
    ELSE IF o.kind = "int" /\ Abs(o.val) <= DblMax
         THEN [val |-> RoundTo(o.val, DoubleMant), err |-> FALSE]
    ELSE [val |-> -1, err |-> TRUE]

\* construction primitives: a new reference, or NULL when the allocation fails
PyLong_From(x, ok) == IF ok THEN [kind |-> "int", val |-> x] ELSE NULL

PyFloat_FromDouble(x, ok) == IF ok THEN [kind |-> "float", val |-> x] ELSE NULL

(***************************************************************************)
(* type_caster<arithmetic T>::load.  `e` is the pending-error indicator on *)
(* entry.  The result gives the return value, whether the native value     *)
(* slot was assigned (and with what), the indicator on return, and whether *)
(* the conversion call itself raised.                                      *)
(***************************************************************************)
\* the foreign-runtime conversion call and the cast of its result to Tp
convert_call(T, src, legacy) ==
    Only({[val |-> static_cast(Tp(T), r.val), err |-> r.err] :
          r \in {IF is_floating_point(T) THEN PyFloat_AsDouble(src)
                 ELSE IF is_unsigned(Tp(T))
                      THEN IF SizeOf(T) <= LongBits
                           THEN PyLong_AsUnsignedLong(src)
                           ELSE PyLong_AsUnsignedLongLong(src)
                      ELSE IF SizeOf(T) <= LongBits
                           THEN PyLong_AsLong(src, legacy)
                           ELSE PyLong_AsLongLong(src, legacy)}})

narrowing_skipped(T, value_p) == FALSE

\* if constexpr (sizeof(Tp) != sizeof(T)) if (value_p != (Tp) (T) value_p)
narrowing_overflow(T, value_p) ==
    /\ ~is_floating_point(T)
    /\ SizeOf(Tp(T)) # SizeOf(T)
    /\ value_p # static_cast(Tp(T), static_cast(T, value_p))

LoadFailed(e, raised) ==
    [ret |-> FALSE, stored |-> FALSE, value |-> 0, err |-> e, convErr |-> raised]

load(T, src, convert, e, legacy) ==
    IF src = NULL THEN LoadFailed(e, FALSE)
    ELSE IF ~convert /\ ~(IF is_floating_point(T) THEN PyFloat_Check(src)
                                                  ELSE PyLong_Check(src))
    THEN LoadFailed(e, FALSE)
    ELSE Only({
             IF narrowing_overflow(T, c.val) THEN LoadFailed(e \/ c.err, c.err)
             ELSE IF c.val = static_cast(Tp(T), -1) /\ (e \/ c.err)  \* PyErr_Occurred()
             THEN LoadFailed(FALSE, c.err)                           \* PyErr_Clear()
             ELSE [ret |-> TRUE, stored |-> TRUE, value |-> static_cast(T, c.val),
                   err |-> e \/ c.err, convErr |-> c.err]
             : c \in {convert_call(T, src, legacy)}})

(***************************************************************************)
(* type_caster<arithmetic T>::cast.                                        *)
(***************************************************************************)
cast(T, src, ok) ==
    IF is_floating_point(T)
    THEN PyFloat_FromDouble(static_cast(DoubleT, src), ok)
    ELSE IF is_unsigned(T) /\ SizeOf(T) <= LongBits
    THEN PyLong_From(static_cast([cls |-> "unsigned", bits |-> LongBits], src), ok)
    ELSE IF is_signed(T) /\ SizeOf(T) <= LongBits
    THEN PyLong_From(static_cast([cls |-> "signed", bits |-> LongBits], src), ok)
    ELSE IF is_unsigned(T)
    THEN PyLong_From(static_cast([cls |-> "unsigned", bits |-> LongLongBits], src), ok)
    ELSE PyLong_From(static_cast([cls |-> "signed", bits |-> LongLongBits], src), ok)

(***************************************************************************)
(* Operations on the numeric caster.  `num` holds the handle the caller    *)
(* has in hand (obj, and the native value it was cast from, if any) and    *)
(* the outcome of the last load made on it.  The caller holds one handle   *)
(* at a time.                                                              *)
(***************************************************************************)
NumNone ==
    [op |-> "none", T |-> NoType, obj |-> NULL, convert |-> FALSE, ret |-> FALSE,
     stored |-> FALSE, value |-> 0, convErr |-> FALSE, fromCast |-> FALSE,
     origT |-> NoType, origV |-> 0]

notNumeric == <<rc, pl, pc, reg, caps, calls, aborted, slot, lk>>

\* a caller that received an invalid reference from cast deals with the error first
CastFailurePending == num.op = "cast" /\ num.obj = NULL

\* the caller obtains a foreign object (or holds an invalid handle)
NumObtain(o) ==
    /\ num.op = "none"
    /\ num' = [NumNone EXCEPT !.op = "obtain", !.obj = o]
    /\ UNCHANGED <<err, notNumeric>>

\* cast(v) for a value v of T
NumCast(T, v, ok) ==
    /\ num.op = "none"
    /\ LET o == cast(T, v, ok)
       IN  /\ num' = [NumNone EXCEPT !.op = "cast", !.T = T, !.obj = o,
                                     !.fromCast = TRUE, !.origT = T, !.origV = v]
           /\ err' = (err \/ o = NULL)
    /\ UNCHANGED notNumeric

\* load, into a fresh caster for T, of the handle in hand
NumLoad(T, convert, legacy) ==
    /\ num.op # "none"
    /\ ~CastFailurePending
    /\ LET r == load(T, num.obj, convert, err, legacy)
       IN  /\ num' = [num EXCEPT !.op = "load", !.T = T, !.convert = convert,
                                 !.ret = r.ret, !.stored = r.stored,
                                 !.value = r.value, !.convErr = r.convErr]
           /\ err' = r.err
    /\ UNCHANGED notNumeric

\* the caller lets go of the handle
NumDrop ==
    /\ num.op # "none"
    /\ ~CastFailurePending
    /\ num' = NumNone
    /\ UNCHANGED <<err, notNumeric>>

\* the caller of a failed cast fetches and clears the error it was told about
HandleCastFailure ==
    /\ CastFailurePending
    /\ err' = FALSE
    /\ num' = NumNone
    /\ UNCHANGED notNumeric

\* whether the runtime predates Python 3.10 only matters for a float given
\* to the signed integer conversion
LegacyChoices(T) ==
    IF num.obj.kind = "float" /\ T.cls = "signed" THEN BOOLEAN ELSE {FALSE}

NextNumeric ==
    \/ \E o \in PyObjs \cup {NULL} : NumObtain(o)
    \/ \E T \in ArithTypes : \E v \in ValuesOf(T) : \E ok \in BOOLEAN : NumCast(T, v, ok)
    \/ \E T \in ArithTypes : \E convert \in BOOLEAN : \E legacy \in LegacyChoices(T) :
           NumLoad(T, convert, legacy)
    \/ NumDrop
    \/ HandleCastFailure


(***************************************************************************)
(* C1.  Round trip: load on the object produced by cast(v), into the same  *)
(* arithmetic type T, returns true and stores exactly v (with conversion   *)
(* allowed or not).                                                        *)
(***************************************************************************)
C1_RoundTrip ==
    (num.op = "load" /\ num.fromCast /\ num.origT = num.T)
        => (num.ret /\ num.stored /\ num.value = num.origV)

(***************************************************************************)
(* C2.  Overflow rejection: load of a foreign integer whose value lies     *)
(* outside the range of the integer type T returns false and assigns       *)
(* nothing to the native value slot.                                       *)
(***************************************************************************)
OutOfRange(T, o) == o.kind = "int" /\ (o.val < MinOf(T) \/ o.val > MaxOf(T))

C2_OverflowRejected ==
    (num.op = "load" /\ num.T \in IntTypes /\ OutOfRange(num.T, num.obj))
        => (~num.ret /\ ~num.stored)

\* a value that fits long but not the narrow signed T (it would wrap) was rejected
C2_Witness ==
    /\ num.op = "load"
    /\ num.T = [cls |-> "signed", bits |-> NarrowBits]
    /\ num.obj = [kind |-> "int", val |-> MaxOf(num.T) + 1]
    /\ ~num.ret

(***************************************************************************)
(* C3.  Whenever the conversion call made inside load raises, load returns *)
(* false and no error is pending when it returns.                          *)
(***************************************************************************)
C3_ErrorCleared ==
    (num.op = "load" /\ num.convErr) => (~num.ret /\ ~err)

(***************************************************************************)
(* The foreign heap the pair caster's load works on: two integers, an      *)
(* object that is no number, tuples over them (nested ones, which share    *)
(* the small integers with their inner tuple as CPython does, and one of a *)
(* wrong size), and a user-defined sequence whose __len__ and __getitem__  *)
(* may raise.  NULLH is the invalid handle.                                *)
(***************************************************************************)
NULLH == "null"

Objs == {"a", "b", "n", "t1", "t2", "t3", "t4", "t5", "t6", "q"}

Kind(o) ==
    CASE o \in {"a", "b"} -> "int"
      [] o = "n" -> "none"
      [] o \in {"t1", "t2", "t3", "t4", "t5", "t6"} -> "tuple"
      [] o = "q" -> "userseq"

Val(o) == CASE o = "a" -> 1 [] o = "b" -> -1 [] OTHER -> 0

Items(o) ==
    CASE o = "t1" -> <<"a", "b">>
      [] o = "t2" -> <<"a", "n">>
      [] o = "t3" -> <<"t1", "a">>
      [] o = "t4" -> <<"t1", "n">>
      [] o = "t5" -> <<"a", "b", "a">>
      [] o = "t6" -> <<"t1", "b">>
      [] o = "q"  -> <<"a", "b">>
      [] OTHER -> <<>>

\* what the numeric caster sees of a heap object
PyObjOf(o) == IF o = NULLH THEN NULL ELSE [kind |-> Kind(o), val |-> Val(o)]

Occurrences(o, c) == Cardinality({i \in DOMAIN Items(c) : Items(c)[i] = o})

RECURSIVE SumOcc(_, _)
SumOcc(o, S) ==
    IF S = {} THEN 0
    ELSE LET c == CHOOSE x \in S : TRUE IN Occurrences(o, c) + SumOcc(o, S \ {c})

\* one reference held by the embedding program, one per containing sequence slot
InitRc == [o \in Objs |-> 1 + SumOcc(o, Objs)]

\* the most unreleased references per object the model follows
MaxLeak == 1

Py_INCREF(r, o) == [r EXCEPT ![o] = @ + 1]

\* no object of this heap is ever released by its last owner, so none is freed
Py_DECREF(r, o) == [r EXCEPT ![o] = @ - 1]

(***************************************************************************)
(* The sequence protocol.  fault says how a user-defined sequence          *)
(* misbehaves: "size" (__len__ raises), "item0" / "item1" (__getitem__     *)
(* raises at that index) or "none".                                        *)
(***************************************************************************)
Faults == {"none", "size", "item0", "item1"}

\* PySequence_Size: the length, or -1 with an error set
PySequence_Size(seq, fault) ==
    IF seq = NULLH THEN -1
    ELSE IF Kind(seq) = "tuple" THEN Len(Items(seq))
    ELSE IF Kind(seq) = "userseq" /\ fault # "size" THEN Len(Items(seq))
    ELSE -1

\* PySequence_GetItem(seq, i), i counted from 0: a new reference, or NULLH
PySequence_GetItem(seq, i, fault) ==
    IF Kind(seq) = "userseq" /\ fault = (IF i = 0 THEN "item0" ELSE "item1")
    THEN NULLH
    ELSE Items(seq)[i + 1]

RECURSIVE release_prefix(_, _, _)
\* for (size_t j = 0; j < i; ++j) Py_DECREF(out[j]);
release_prefix(r, out, i) ==
    IF i = 0 THEN r ELSE release_prefix(Py_DECREF(r, out[i]), out, i - 1)

RECURSIVE fetch_loop(_, _, _, _, _, _)
\* the loop of seq_size_fetch from index i on; st = [rc, err]
fetch_loop(seq, size, i, out, st, fault) ==
    IF i >= size THEN [ok |-> TRUE, out |-> out, rc |-> st.rc, err |-> st.err]
    ELSE Only({
             IF x = NULLH
             THEN [ok |-> FALSE, out |-> out,
                   rc |-> release_prefix(st.rc, out, i), err |-> TRUE]
             ELSE fetch_loop(seq, size, i + 1, Append(out, x),
                             [rc |-> Py_INCREF(st.rc, x), err |-> st.err], fault)
             : x \in {PySequence_GetItem(seq, i, fault)}})

seq_size_fetch(seq, size, st, fault) ==
    LET rv == PySequence_Size(seq, fault)
        e  == IF rv = -1 THEN FALSE ELSE st.err        \* PyErr_Clear()
    IN  IF rv # size
        THEN [ok |-> FALSE, out |-> <<>>, rc |-> st.rc, err |-> e]
        ELSE fetch_loop(seq, size, 0, <<>>, [rc |-> st.rc, err |-> e], fault)

(***************************************************************************)
(* type_caster<std::pair<T1, T2>>::load.  A pair type is a record          *)
(* [cls |-> "pair", first |-> T1, second |-> T2].                          *)
(***************************************************************************)
ElemTypes == [cls : {"signed", "unsigned"}, bits : {NarrowBits}]

PairOf(A, B) == [cls |-> "pair", first |-> A, second |-> B]

FlatPairs == {PairOf(A, B) : A \in ElemTypes, B \in ElemTypes}

InnerPair == PairOf([cls |-> "signed", bits |-> NarrowBits],
                    [cls |-> "signed", bits |-> NarrowBits])

PairTypes ==
    FlatPairs \cup {PairOf(InnerPair, B) : B \in ElemTypes}
              \cup {PairOf(A, InnerPair) : A \in ElemTypes}

\* fail: Py_DECREF(o[0]); Py_DECREF(o[1]);
release_fetched(r, out) == Py_DECREF(Py_DECREF(r, out[1]), out[2])

RECURSIVE pair_load(_, _, _, _, _)
\* make_caster<T>().load(o, convert) for an element of the pair
elem_load(T, o, convert, st, fault) ==
    IF T.cls = "pair" THEN pair_load(T, o, convert, st, fault)
    ELSE Only({[ret |-> r.ret, rc |-> st.rc, err |-> r.err] :
               r \in {load(T, PyObjOf(o), convert, st.err, FALSE)}})

\* the second element, once the first has been loaded with outcome r1
pair_load_second(T, out, r1, convert, fault) ==
    Only({
        IF ~r2.ret
        THEN [ret |-> FALSE, rc |-> release_fetched(r2.rc, out), err |-> r2.err]
        ELSE [ret |-> TRUE, rc |-> r2.rc, err |-> r2.err]
        : r2 \in {elem_load(T.second, out[2], convert,
                            [rc |-> r1.rc, err |-> r1.err], fault)}})

\* the elements, once seq_size_fetch has returned f
pair_load_first(T, f, convert, fault) ==
    Only({
        IF ~r1.ret
        THEN [ret |-> FALSE, rc |-> release_fetched(r1.rc, f.out), err |-> r1.err]
        ELSE pair_load_second(T, f.out, r1, convert, fault)
        : r1 \in {elem_load(T.first, f.out[1], convert,
                            [rc |-> f.rc, err |-> f.err], fault)}})

pair_load(T, src, convert, st, fault) ==
    Only({
        IF ~f.ok THEN [ret |-> FALSE, rc |-> f.rc, err |-> f.err]
        ELSE pair_load_first(T, f, convert, fault)
        : f \in {seq_size_fetch(src, 2, st, fault)}})

PlNone ==
    [op |-> "none", T |-> NoType, src |-> NULLH, convert |-> FALSE,
     fault |-> "none", ret |-> FALSE, rcBefore |-> InitRc]

notPairLoad == <<num, pc, reg, caps, calls, aborted, slot, lk>>

\* a fault is a choice only when the source is the user-defined sequence
FaultChoices(src) ==
    IF src # NULLH /\ Kind(src) = "userseq" THEN Faults ELSE {"none"}

\* one call of the pair caster's load on a caller-owned source
PairLoad(T, src, convert, fault) ==
    \E r \in {pair_load(T, src, convert, [rc |-> rc, err |-> err], fault)} :
        /\ \A o \in Objs : r.rc[o] <= InitRc[o] + MaxLeak
        /\ rc' = r.rc
        /\ err' = r.err
        /\ pl' = [op |-> "load", T |-> T, src |-> src, convert |-> convert,
                  fault |-> fault, ret |-> r.ret, rcBefore |-> rc]
        /\ UNCHANGED notPairLoad

NextPairLoad ==
    \E T \in PairTypes : \E src \in Objs \cup {NULLH} : \E convert \in BOOLEAN :
        \E fault \in FaultChoices(src) : PairLoad(T, src, convert, fault)

\* the source sequence and each of its elements
Involved(src) ==
    IF src = NULLH THEN {} ELSE {src} \cup {Items(src)[i] : i \in DOMAIN Items(src)}

(***************************************************************************)
(* C4.  Whenever the pair caster's load returns false, the reference count *)
(* of the source sequence and of each of its elements is what it was       *)
(* before the call: every reference the element fetch acquired has been    *)
(* released exactly once.                                                  *)
(***************************************************************************)
C4_FailedLoadNeutral ==
    (pl.op = "load" /\ ~pl.ret)
        => \A o \in Involved(pl.src) : rc[o] = pl.rcBefore[o]

(***************************************************************************)
(* C11.  The pair caster's load is reference-count neutral on every path:  *)
(* after a load that returns true, as after one that returns false, the    *)
(* count of each element of the source sequence (and of the sequence) is   *)
(* what it was before the call, the two fetched references having been     *)
(* released; this covers nested pairs whose inner load succeeds while the  *)
(* outer load fails.                                                       *)
(***************************************************************************)
C11_LoadNeutral ==
    (pl.op = "load")
        => \A o \in Involved(pl.src) : rc[o] = pl.rcBefore[o]

(***************************************************************************)
(* type_caster<std::pair<T1, T2>>::cast.  A cast only creates objects, so  *)
(* it works on a heap of its own: hp is the sequence of the objects        *)
(* allocated during the call, an object's handle is its index, and 0 is    *)
(* the invalid handle.  cs = [hp, n, err, nullDeref, crashed] is threaded  *)
(* through the call: n counts the allocation attempts, the failAt-th of    *)
(* which fails (0: none does).                                             *)
(***************************************************************************)
NoHandle == 0

CsInit(e) == [hp |-> <<>>, n |-> 0, err |-> e, nullDeref |-> FALSE, crashed |-> FALSE]

\* a newly allocated object enters the heap holding one reference
alloc(cs, o) == [cs EXCEPT !.hp = Append(@, [kind |-> o.kind, val |-> o.val,
                                             items |-> <<>>, rc |-> 1])]

RECURSIVE dec_ref_all(_, _)
RECURSIVE dec_ref(_, _)
\* handle::dec_ref / Py_DECREF: the last release frees the object, and a
\* freed tuple releases its items
dec_ref(hp, h) ==
    Only({IF hp1[h].rc = 0 THEN dec_ref_all(hp1, hp1[h].items) ELSE hp1 :
          hp1 \in {[hp EXCEPT ![h].rc = @ - 1]}})

dec_ref_all(hp, hs) ==
    IF hs = <<>> THEN hp ELSE dec_ref_all(dec_ref(hp, Head(hs)), Tail(hs))

\* the numeric caster's cast as a component: one allocation attempt
num_cast(T, v, cs, failAt) ==
    Only({IF o = NULL
          THEN [h |-> NoHandle, cs |-> [cs EXCEPT !.n = @ + 1, !.err = TRUE]]
          ELSE [h |-> Len(cs.hp) + 1, cs |-> alloc([cs EXCEPT !.n = @ + 1], o)] :
          o \in {cast(T, v, cs.n + 1 # failAt)}})

\* PyTuple_New(2): a new reference to an empty 2-tuple, or NULL
PyTuple_New(cs, failAt) ==
    IF cs.n + 1 = failAt
    THEN [h |-> NoHandle, cs |-> [cs EXCEPT !.n = @ + 1, !.err = TRUE]]
    ELSE [h |-> Len(cs.hp) + 1,
          cs |-> alloc([cs EXCEPT !.n = @ + 1], [kind |-> "tuple", val |-> 0])]

\* PyTuple_SET_ITEM(r, 0, o1.release().ptr()); PyTuple_SET_ITEM(r, 1, ...):
\* through a null r this is undefined behaviour.  The store either faults
\* (the process dies) or lands in low memory and the call carries on; the
\* two released references then belong to nobody.
tuple_set_items(t, h1, h2, ub) ==
    Only({IF r.h = NoHandle
          THEN [h |-> NoHandle,
                cs |-> [r.cs EXCEPT !.nullDeref = TRUE, !.crashed = (ub = "fault")]]
          ELSE [h |-> r.h, cs |-> [r.cs EXCEPT !.hp[r.h].items = <<h1, h2>>]] :
          r \in {t}})

\* object o1 = steal(...) going out of scope on an early return
object_dtor(cs, h) == [cs EXCEPT !.hp = dec_ref(@, h)]

RECURSIVE pair_cast(_, _, _, _, _)
\* make_caster<T>::cast(value, policy, parent) for a component
elem_cast(T, v, cs, failAt, ub) ==
    IF T.cls = "pair" THEN pair_cast(T, v, cs, failAt, ub)
    ELSE num_cast(T, v, cs, failAt)

\* a result of the pair caster's cast: the handle and state, and for this
\* level whether a component cast came back invalid and whether the
\* container was created
PairCastResult(h, cs, compInvalid) ==
    [h |-> h, cs |-> cs, compInvalid |-> compInvalid, made |-> h # NoHandle]

\* the container, once both components c1 and c2 have been cast
pair_cast_tuple(c1, c2, failAt, ub) ==
    Only({PairCastResult(r.h, r.cs, FALSE) :
          r \in {tuple_set_items(PyTuple_New(c2.cs, failAt), c1.h, c2.h, ub)}})

\* the second component, once the first has been cast with outcome c1
pair_cast_second(T, v, c1, failAt, ub) ==
    Only({
        IF c2.cs.crashed THEN PairCastResult(NoHandle, c2.cs, FALSE)
        ELSE IF c2.h = NoHandle
        THEN PairCastResult(NoHandle, object_dtor(c2.cs, c1.h), TRUE)
        ELSE pair_cast_tuple(c1, c2, failAt, ub)
        : c2 \in {elem_cast(T.second, v.second, c1.cs, failAt, ub)}})

pair_cast(T, v, cs, failAt, ub) ==
    Only({
        IF c1.cs.crashed THEN PairCastResult(NoHandle, c1.cs, FALSE)
        ELSE IF c1.h = NoHandle THEN PairCastResult(NoHandle, c1.cs, TRUE)
        ELSE pair_cast_second(T, v, c1, failAt, ub)
        : c1 \in {elem_cast(T.first, v.first, cs, failAt, ub)}})

\* a few native values of each type
NativeValues(T) ==
    IF T.cls = "pair"
    THEN IF T.first.cls = "pair"
         THEN {[first |-> [first |-> 0, second |-> MaxOf(T.first.second)],
                second |-> x] : x \in {MinOf(T.second), MaxOf(T.second)}}
         ELSE IF T.second.cls = "pair"
         THEN {[first |-> x,
                second |-> [first |-> 0, second |-> MaxOf(T.second.second)]] :
                   x \in {MinOf(T.first), MaxOf(T.first)}}
         ELSE {[first |-> x, second |-> y] :
                   x \in {MinOf(T.first), MaxOf(T.first)},
                   y \in {MinOf(T.second), MaxOf(T.second)}}
    ELSE {MinOf(T), MaxOf(T)}

\* the most allocation attempts one cast makes: three numbers, two tuples
MaxAllocs == 5

UbOutcomes == {"fault", "carries_on"}

PcNone ==
    [op |-> "none", T |-> NoType, value |-> 0, failAt |-> 0, result |-> NoHandle,
     hp |-> <<>>, compInvalid |-> FALSE, made |-> FALSE, nullDeref |-> FALSE,
     nullPassed |-> FALSE, crashed |-> FALSE, thrown |-> FALSE]

notPairCast == <<rc, num, pl, reg, caps, calls, aborted, slot, lk>>

\* a caller that received an invalid reference deals with the error first;
\* after a crash there is no process left
PcBlocked == pc.crashed \/ (pc.op = "cast" /\ pc.result = NoHandle)

\* one call of the pair caster's cast
PairCast(T, v, failAt, ub) ==
    /\ ~PcBlocked
    /\ \E r \in {pair_cast(T, v, CsInit(err), failAt, ub)} :
        /\ pc' = [PcNone EXCEPT !.op = "cast", !.T = T, !.value = v,
                                !.failAt = failAt, !.result = r.h, !.hp = r.cs.hp,
                                !.compInvalid = r.compInvalid, !.made = r.made,
                                !.nullDeref = r.cs.nullDeref,
                                !.crashed = r.cs.crashed]
        /\ err' = r.cs.err
    /\ UNCHANGED notPairCast

\* the caller of a failed cast fetches and clears the error it was told about
HandlePairCastFailure ==
    /\ pc.op = "cast" /\ pc.result = NoHandle /\ ~pc.crashed
    /\ pc' = PcNone
    /\ err' = FALSE
    /\ UNCHANGED notPairCast

(***************************************************************************)
(* cast(value) and accessor<Policy>::operator=(value).                     *)
(***************************************************************************)
\* object cast(T &&value, policy, parent): steal(caster.cast(...))
top_cast(T, v, cs, failAt, ub) ==
    IF T.cls = "pair"
    THEN Only({[h |-> r.h, cs |-> r.cs] : r \in {pair_cast(T, v, cs, failAt, ub)}})
    ELSE num_cast(T, v, cs, failAt)

\* setattr / setitem: PyObject_SetAttr / PyObject_SetItem(obj, key, value),
\* which on success stores a new reference to value in obj; a failure is
\* raised through python_error_raise
obj_set(cs, h, setOk) ==
    IF ~setOk THEN [cs |-> [cs EXCEPT !.err = TRUE], thrown |-> TRUE]
    ELSE IF h = NoHandle THEN [cs |-> cs, thrown |-> FALSE]
    ELSE [cs |-> [cs EXCEPT !.hp[h].rc = @ + 1], thrown |-> FALSE]

\* Policy::set(m_obj, m_key, cast(value)); the temporary object is then destroyed
AccessorAssign(T, v, failAt, ub, setOk) ==
    /\ ~PcBlocked
    /\ \E c \in {top_cast(T, v, CsInit(err), failAt, ub)} :
        IF c.cs.crashed
        THEN /\ pc' = [PcNone EXCEPT !.op = "assign", !.T = T, !.value = v,
                                     !.failAt = failAt, !.hp = c.cs.hp,
                                     !.nullDeref = TRUE, !.crashed = TRUE]
             /\ err' = c.cs.err
        ELSE \E s \in {obj_set(c.cs, c.h, setOk)} :
             /\ pc' = [PcNone EXCEPT
                          !.op = "assign", !.T = T, !.value = v, !.failAt = failAt,
                          !.result = c.h,
                          !.hp = IF c.h = NoHandle THEN s.cs.hp
                                 ELSE dec_ref(s.cs.hp, c.h),
                          !.nullDeref = c.cs.nullDeref,
                          !.nullPassed = (c.h = NoHandle),
                          !.thrown = s.thrown]
             /\ err' = s.cs.err
    /\ UNCHANGED notPairCast

\* the caller deals with the error an assignment raised or left pending
HandleAssignError ==
    /\ pc.op = "assign" /\ ~pc.crashed /\ err
    /\ pc' = PcNone
    /\ err' = FALSE
    /\ UNCHANGED notPairCast

CastTypes == ElemTypes \cup PairTypes

NextPairCast ==
    \/ \E T \in PairTypes : \E v \in NativeValues(T) : \E failAt \in 0..MaxAllocs :
           \E ub \in UbOutcomes : PairCast(T, v, failAt, ub)
    \/ HandlePairCastFailure
    \/ \E T \in CastTypes : \E v \in NativeValues(T) : \E failAt \in 0..MaxAllocs :
           \E ub \in UbOutcomes : \E setOk \in BOOLEAN :
               AccessorAssign(T, v, failAt, ub, setOk)
    \/ HandleAssignError

C7_NullNeverUsed == ~pc.nullDeref /\ ~pc.nullPassed

(***************************************************************************)
(* type_caster<T> for bound types: cast hands the value to the registry    *)
(* (detail::type_put) under a policy.  `reg` records the last call: what   *)
(* the caller asked for and what the registry was given.                   *)
(***************************************************************************)
Policies ==
    {"take_ownership", "copy", "move", "reference", "reference_internal",
     "automatic", "automatic_reference"}

ConcretePolicies == Policies \ {"automatic", "automatic_reference"}

Shapes == {"pointer", "lvalue", "rvalue"}

\* parent handles: handle() and two objects
Parents == {NULLH, "a", "n"}

\* addresses of native instances; 0 is nullptr, which only a pointer can be
Addresses == 0..2

AddressesOf(shape) == IF shape = "pointer" THEN Addresses ELSE Addresses \ {0}

\* what a pointer-shaped cast that rewrote nothing would pass on
policy_kept(policy) == policy

\* what an lvalue-shaped cast that always copied would pass on
policy_copy(policy) == "copy"

\* cast(const T *p, policy, parent)
policy_pointer(policy) ==
    IF policy = "automatic" THEN "take_ownership"
    ELSE IF policy = "automatic_reference" THEN "reference"
    ELSE policy

\* cast(const T &p, policy, parent)
policy_lvalue(policy) ==
    IF policy = "automatic" \/ policy = "automatic_reference" THEN "copy"
    ELSE policy

\* cast(const T &&p, rv_policy /* policy */, parent)
policy_rvalue(policy) == "move"

\* detail::type_put(&typeid(T), p, policy, parent.ptr()): the registry's
\* answer is a new reference or an invalid one
type_put(p, policy, parent, ok) ==
    [p |-> p, policy |-> policy, parent |-> parent,
     ret |-> IF ok THEN "valid" ELSE "invalid"]

cast_impl(p, policy, parent, ok) == type_put(p, policy, parent, ok)

\* the overload chosen by the shape of the argument
caster_cast(shape, p, policy, parent, ok) ==
    IF shape = "pointer" THEN cast_impl(p, policy_pointer(policy), parent, ok)
    ELSE IF shape = "lvalue" THEN cast_impl(p, policy_lvalue(policy), parent, ok)
    ELSE cast_impl(p, policy_rvalue(policy), parent, ok)

RegNone ==
    [op |-> "none", via |-> "none", shape |-> "none", policy |-> "none",
     parent |-> NULLH, p |-> 0,
     put |-> [p |-> 0, policy |-> "none", parent |-> NULLH, ret |-> "invalid"]]

notPolicy == <<err, rc, num, pl, pc, caps, calls, aborted, slot, lk>>

\* a direct call of the caster's cast
GenericCast(shape, p, policy, parent, ok) ==
    /\ reg' = [op |-> "cast", via |-> "caster", shape |-> shape, policy |-> policy,
               parent |-> parent, p |-> p,
               put |-> caster_cast(shape, p, policy, parent, ok)]
    /\ UNCHANGED notPolicy

\* object cast(T &&value, policy, parent): the value is forwarded with its
\* shape, the policy and parent as given, and the result is stolen
PublicCast(shape, p, policy, parent, ok) ==
    /\ reg' = [op |-> "cast", via |-> "cast", shape |-> shape, policy |-> policy,
               parent |-> parent, p |-> p,
               put |-> caster_cast(shape, p, policy, parent, ok)]
    /\ UNCHANGED notPolicy

NextPolicy ==
    \/ \E shape \in Shapes : \E p \in AddressesOf(shape) : \E policy \in Policies :
           \E parent \in Parents : \E ok \in BOOLEAN :
               GenericCast(shape, p, policy, parent, ok)
    \/ \E shape \in Shapes : \E p \in AddressesOf(shape) : \E policy \in Policies :
           \E parent \in Parents : \E ok \in BOOLEAN :
               PublicCast(shape, p, policy, parent, ok)

\* the resolution of `automatic` for each shape
AutomaticFor(shape) ==
    IF shape = "pointer" THEN "take_ownership"
    ELSE IF shape = "lvalue" THEN "copy" ELSE "move"

(***************************************************************************)
(* C6 as stated.  The registry is given the normalisation of the requested *)
(* policy: automatic becomes take_ownership / copy / move by shape, and    *)
(* automatic_reference becomes reference for every shape; the registry     *)
(* never sees automatic or automatic_reference.                            *)
(***************************************************************************)
C6_AsStated ==
    (reg.op = "cast") =>
        /\ (reg.policy = "automatic" => reg.put.policy = AutomaticFor(reg.shape))
        /\ (reg.policy = "automatic_reference" => reg.put.policy = "reference")
        /\ reg.put.policy \in ConcretePolicies

(***************************************************************************)
(* C6, amended.  automatic becomes take_ownership / copy / move by shape;  *)
(* automatic_reference becomes reference for a pointer only, and is        *)
(* resolved like automatic for an lvalue (copy) and an rvalue (move); the  *)
(* registry never sees automatic or automatic_reference.                   *)
(***************************************************************************)
C6_Normalised ==
    (reg.op = "cast") =>
        /\ (reg.policy = "automatic" => reg.put.policy = AutomaticFor(reg.shape))
        /\ (reg.policy = "automatic_reference" =>
                reg.put.policy = IF reg.shape = "pointer" THEN "reference"
                                 ELSE AutomaticFor(reg.shape))
        /\ reg.put.policy \in ConcretePolicies

C6_Witness ==
    /\ reg.op = "cast"
    /\ reg.shape = "lvalue"
    /\ reg.policy = "automatic_reference"
    /\ reg.put.policy = "copy"

(***************************************************************************)
(* C10 as stated.  Every concrete policy the caller asks for reaches the   *)
(* registry unchanged, with the unchanged parent, for every shape.         *)
(***************************************************************************)
C10_AsStated ==
    (reg.op = "cast" /\ reg.policy \in ConcretePolicies) =>
        /\ reg.put.policy = reg.policy
        /\ reg.put.parent = reg.parent

(***************************************************************************)
(* C10, amended.  For a pointer and for an lvalue every concrete policy    *)
(* reaches the registry unchanged; for an rvalue the requested policy is   *)
(* ignored and the registry is given move.  The parent and the address     *)
(* reach the registry unchanged for every shape.                           *)
(***************************************************************************)
C10_ConcreteKept ==
    (reg.op = "cast" /\ reg.policy \in ConcretePolicies) =>
        /\ reg.put.policy = IF reg.shape = "rvalue" THEN "move" ELSE reg.policy
        /\ reg.put.parent = reg.parent
        /\ reg.put.p = reg.p

C10_Witness ==
    /\ reg.op = "cast"
    /\ reg.shape = "rvalue"
    /\ reg.policy = "reference_internal"
    /\ reg.parent = "a"
    /\ reg.put.policy = "move"
    /\ reg.put.parent = "a"

(***************************************************************************)
(* capsule_new.  `caps` is the sequence of the capsules created so far,    *)
(* `calls` the sequence of the destructor invocations made so far, and     *)
(* `aborted` tells that fail() has ended the process.  A capsule records   *)
(* what the runtime stores (pointer, context) next to what capsule_new was *)
(* called with (ptr, free).                                                *)
(***************************************************************************)
MaxCapsules == 2

MaxRefs == 2

\* the null function pointer, and two destructors
NULLFN == "nullfn"

Destructors == {NULLFN, "f", "g"}

\* the callback without its test of the stored destructor
capsule_free_unchecked(c, id) ==
    <<[fn |-> c.context, ptr |-> c.pointer, capsule |-> id]>>

\* the capsule_free lambda: the invocations it makes for capsule c
capsule_free(c, id) ==
    IF c.context # NULLFN
    THEN <<[fn |-> c.context, ptr |-> c.pointer, capsule |-> id]>>
    ELSE <<>>

\* PyCapsule_New(ptr, nullptr, capsule_free): fails for a null pointer or
\* when the allocation fails; a new capsule holds one reference and an
\* empty context
PyCapsule_New(ptr, allocOk) == ptr # 0 /\ allocOk

Capsule(ptr, free, pointer, context, state) ==
    [ptr |-> ptr, free |-> free, pointer |-> pointer, context |-> context,
     refs |-> IF state = "none" THEN 0 ELSE 1, state |-> state]

notCapsule == <<err, rc, num, pl, pc, reg, slot, lk>>

capsule_new(ptr, free, allocOk, ctxOk) ==
    /\ ~aborted
    /\ Len(caps) < MaxCapsules
    /\ IF ~PyCapsule_New(ptr, allocOk)
       THEN \* fail("allocation failed!")
            /\ caps' = Append(caps, Capsule(ptr, free, 0, NULLFN, "none"))
            /\ aborted' = TRUE
       ELSE IF ~ctxOk
       THEN \* fail("could not set context!")
            /\ caps' = Append(caps, Capsule(ptr, free, ptr, NULLFN, "failed"))
            /\ aborted' = TRUE
       ELSE /\ caps' = Append(caps, Capsule(ptr, free, ptr, free, "live"))
            /\ aborted' = FALSE
    /\ UNCHANGED <<calls, notCapsule>>

\* the holder of a capsule takes another reference
CapsuleIncRef(i) ==
    /\ ~aborted
    /\ i \in DOMAIN caps
    /\ caps[i].state = "live"
    /\ caps[i].refs < MaxRefs
    /\ caps' = [caps EXCEPT ![i].refs = @ + 1]
    /\ UNCHANGED <<calls, aborted, notCapsule>>

\* a reference is released; the runtime finalizes the capsule with the last
\* one, which runs capsule_free
CapsuleDecRef(i) ==
    /\ ~aborted
    /\ i \in DOMAIN caps
    /\ caps[i].state = "live"
    /\ IF caps[i].refs = 1
       THEN /\ caps' = [caps EXCEPT ![i].refs = 0, ![i].state = "finalized"]
            /\ calls' = calls \o capsule_free(caps[i], i)
       ELSE /\ caps' = [caps EXCEPT ![i].refs = @ - 1]
            /\ calls' = calls
    /\ UNCHANGED <<aborted, notCapsule>>

NextCapsule ==
    \/ \E ptr \in Addresses : \E free \in Destructors : \E allocOk, ctxOk \in BOOLEAN :
           capsule_new(ptr, free, allocOk, ctxOk)
    \/ \E i \in 1..MaxCapsules : CapsuleIncRef(i)
    \/ \E i \in 1..MaxCapsules : CapsuleDecRef(i)

Invocations(i) == {k \in DOMAIN calls : calls[k].capsule = i}

\* the destructor of a capsule has been invoked exactly once if the capsule
\* has been finalized and was given a non-null destructor, and not at all
\* otherwise; an invocation is of the destructor and on the pointer
\* capsule_new was called with; a construction that failed has ended the
\* process through fail() and its destructor has not been invoked
InvokedAsOwed ==
    /\ \A i \in DOMAIN caps :
          /\ Cardinality(Invocations(i)) =
                IF caps[i].state = "finalized" /\ caps[i].free # NULLFN THEN 1 ELSE 0
          /\ \A k \in Invocations(i) :
                /\ calls[k].fn = caps[i].free
                /\ calls[k].fn # NULLFN
                /\ calls[k].ptr = caps[i].ptr
          /\ (caps[i].state \in {"none", "failed"}) => aborted
    /\ \A k \in DOMAIN calls : calls[k].capsule \in DOMAIN caps
    /\ aborted => caps[Len(caps)].state \in {"none", "failed"}

\* the sequence of invocations grows only in a step that finalizes a
\* capsule, and by one
OnlyAtFinalization ==
    [][calls' # calls =>
          /\ Len(calls') = Len(calls) + 1
          /\ \E i \in DOMAIN caps :
                caps[i].state = "live" /\ caps'[i].state = "finalized"]_vars

(***************************************************************************)
(* C8.  Over any sequence of creations and finalizations the destructor of *)
(* a capsule is invoked at most once, only in the step that finalizes the  *)
(* capsule, on the pointer capsule_new was called with, and only if the    *)
(* destructor is non-null; a construction that fails ends the process      *)
(* through fail() and the destructor is never invoked.                     *)
(***************************************************************************)
C8_DestructorOnce == []InvokedAsOwed /\ OnlyAtFinalization

C8_Witness ==
    \E i \in DOMAIN caps :
        /\ caps[i].state = "finalized"
        /\ caps[i].free = "f"
        /\ Cardinality(Invocations(i)) = 1
        /\ aborted

(***************************************************************************)
(* getattr_maybe and getitem_maybe.  `slot` is the in/out slot *out, and   *)
(* `lk` records the last call: the slot and the reference counts on entry, *)
(* the calls made into the runtime, what became of the temporary key, the  *)
(* stores made to the slot and how the call ended.                         *)
(***************************************************************************)
MaybeFns ==
    {"getattr_maybe_str", "getattr_maybe_obj",
     "getitem_maybe_int", "getitem_maybe_str", "getitem_maybe_obj"}

\* the variants that build a temporary key object
has_temp_key(fn) == fn \in {"getitem_maybe_int", "getitem_maybe_str"}

\* the runtime entry point each variant fetches with
lookup_call(fn) ==
    CASE fn = "getattr_maybe_str" -> "PyObject_GetAttrString"
      [] fn = "getattr_maybe_obj" -> "PyObject_GetAttr"
      [] OTHER -> "PyObject_GetItem"

\* the runtime entry point that builds the temporary key
key_call(fn) ==
    IF fn = "getitem_maybe_int" THEN "PyLong_FromSsize_t" ELSE "PyUnicode_FromString"

\* the objects a lookup may answer with
Found == {"a", "b", "n", "t1"}

\* the objects looked into
Lookees == {"t1", "t5", "q"}

\* python_error_raise(): throws if an error is pending, fails otherwise
python_error_raise(pending) == IF pending THEN "raised" ELSE "aborted"

LkNone ==
    [op |-> "none", fn |-> "none", obj |-> NULLH, slotBefore |-> NULLH,
     rcBefore |-> InitRc, api |-> <<>>, keyMade |-> FALSE, keyReleases |-> 0,
     stores |-> 0, res |-> NULLH, outcome |-> "none"]

\* the body without its test of the slot
slot_filled_never(out) == FALSE

\* if (*out) return;
slot_filled(out) == out # NULLH

\* one call, as a record of its effects: the slot and counts it leaves and
\* the trace of what it did
maybe_call(fn, obj, out, st, res, keyOk, resOk) ==
    IF slot_filled(out)
    THEN [slot |-> out, rc |-> st, api |-> <<>>, keyMade |-> FALSE,
          keyReleases |-> 0, stores |-> 0, res |-> NULLH, outcome |-> "returned"]
    ELSE IF has_temp_key(fn) /\ ~keyOk
    THEN [slot |-> out, rc |-> st, api |-> <<key_call(fn)>>, keyMade |-> FALSE,
          keyReleases |-> 0, stores |-> 0, res |-> NULLH,
          outcome |-> python_error_raise(TRUE)]
    ELSE Only({
           IF ~resOk
           THEN [slot |-> out, rc |-> st, api |-> pre \o <<lookup_call(fn)>>,
                 keyMade |-> has_temp_key(fn),
                 keyReleases |-> IF has_temp_key(fn) THEN 1 ELSE 0,
                 stores |-> 0, res |-> NULLH, outcome |-> python_error_raise(TRUE)]
           ELSE [slot |-> res, rc |-> Py_INCREF(st, res),
                 api |-> pre \o <<lookup_call(fn)>>,
                 keyMade |-> has_temp_key(fn),
                 keyReleases |-> IF has_temp_key(fn) THEN 1 ELSE 0,
                 stores |-> 1, res |-> res, outcome |-> "returned"]
           : pre \in {IF has_temp_key(fn) THEN <<key_call(fn)>> ELSE <<>>}})

notMaybe == <<err, num, pl, pc, reg, caps, calls, aborted>>

MaybeCall(fn, obj, res, keyOk, resOk) ==
    /\ \E r \in {maybe_call(fn, obj, slot, rc, res, keyOk, resOk)} :
        /\ slot' = r.slot
        /\ rc' = r.rc
        /\ lk' = [op |-> "call", fn |-> fn, obj |-> obj, slotBefore |-> slot,
                  rcBefore |-> rc, api |-> r.api, keyMade |-> r.keyMade,
                  keyReleases |-> r.keyReleases, stores |-> r.stores,
                  res |-> r.res, outcome |-> r.outcome]
    /\ UNCHANGED notMaybe

NextMaybe ==
    \E fn \in MaybeFns : \E obj \in Lookees : \E res \in Found :
        \E keyOk, resOk \in BOOLEAN : MaybeCall(fn, obj, res, keyOk, resOk)

\* the fetch was attempted: the call went past the test of the slot and
\* into the runtime
FetchAttempted == lk.api # <<>>

(***************************************************************************)
(* C9.  A call of getattr_maybe / getitem_maybe attempts the fetch if and  *)
(* only if the slot is empty on entry.  With a non-empty slot it makes no  *)
(* call into the runtime, changes no reference count and leaves the slot   *)
(* as it was.  A successful lookup stores the new reference in the slot    *)
(* exactly once; a failed one leaves the slot empty, changes no count and  *)
(* raises.  The runtime lookup itself is made exactly when the slot was    *)
(* empty and the temporary key, if the variant has one, could be built;    *)
(* a temporary key that was built has been released exactly once on the    *)
(* success and on the failure path.                                        *)
(***************************************************************************)
C9_FetchIffEmpty ==
    (lk.op = "call") =>
        /\ FetchAttempted <=> (lk.slotBefore = NULLH)
        /\ (lk.slotBefore # NULLH) =>
              /\ rc = lk.rcBefore
              /\ slot = lk.slotBefore
              /\ lk.stores = 0
              /\ lk.outcome = "returned"
        /\ (lk.slotBefore = NULLH /\ lk.outcome = "returned") =>
              /\ lk.stores = 1
              /\ slot = lk.res /\ slot # NULLH
              /\ rc = Py_INCREF(lk.rcBefore, lk.res)
        /\ (lk.outcome # "returned") =>
              /\ lk.outcome = "raised"
              /\ slot = NULLH
              /\ lk.stores = 0
              /\ rc = lk.rcBefore
        /\ (\E k \in DOMAIN lk.api : lk.api[k] = lookup_call(lk.fn))
              <=> (lk.slotBefore = NULLH /\ (has_temp_key(lk.fn) => lk.keyMade))
        /\ lk.keyReleases = IF lk.keyMade THEN 1 ELSE 0
        /\ (has_temp_key(lk.fn) /\ lk.slotBefore = NULLH /\ lk.res # NULLH)
              => lk.keyMade

\* a call on a slot an earlier call had filled
C9_Witness ==
    /\ lk.op = "call"
    /\ lk.fn = "getitem_maybe_int"
    /\ lk.slotBefore = "a"
    /\ slot = "a"
    /\ rc["a"] = InitRc["a"] + 1

Init ==
    /\ err = FALSE
    /\ rc = InitRc
    /\ num = NumNone
    /\ pl = PlNone
    /\ pc = PcNone
    /\ reg = RegNone
    /\ caps = <<>>
    /\ calls = <<>>
    /\ aborted = FALSE
    /\ slot = NULLH
    /\ lk = LkNone

SpecNumeric == Init /\ [][NextNumeric]_vars

SpecPairLoad == Init /\ [][NextPairLoad]_vars

SpecPairCast == Init /\ [][NextPairCast]_vars

SpecPolicy == Init /\ [][NextPolicy]_vars

SpecCapsule == Init /\ [][NextCapsule]_vars

SpecMaybe == Init /\ [][NextMaybe]_vars

\* every operation, interleaved
Next ==
    \/ NextNumeric
    \/ NextPairLoad
    \/ NextPairCast
    \/ NextPolicy
    \/ NextCapsule
    \/ NextMaybe

Spec == Init /\ [][Next]_vars

====
